---- MODULE Spec2Model ----
(***************************************************************************)
(* Model of src/analysis.py: summary_statistics and                        *)
(* extreme_rank_countries over a pandas DataFrame.                         *)
(*                                                                         *)
(* A dataset is a function from column labels to columns; a column is a    *)
(* tuple of NRows cells.  A cell is <<>> when the value is missing (NaN)   *)
(* and <<h>> otherwise, where h is TWICE the number held, so that the      *)
(* average ranks pandas assigns to ties (1.5, 2.5, ...) stay integers.     *)
(* The "cname" column is the only object-dtype (non-numeric) column; its   *)
(* cell <<2*i>> stands for the name of the country of row i.               *)
(***************************************************************************)
EXTENDS Integers, Sequences, FiniteSets, TLC

\* ---------------------------------------------------------------- bounds
NRows == 2

MaxVal == 2

MaxVars == 2

\* top_n ranges over 1 .. MaxTopN: below, at and above the number of rows
MaxTopN == NRows + 1

\* ---------------------------------------------------------------- data
Rows == 1..NRows

Missing == <<>>

IsNA(x) == x = Missing

Cells == {Missing} \cup {<<2 * v>> : v \in 1..MaxVal}

CALC == "rank_col2_calc"

CNAME == "cname"

\* labels a dataset of the model may carry, and the labels passed as
\* rank_col1 / rank_col2 (numeric columns only)
RankNames == {"rank", "score", CALC}

AllNames == {CNAME} \cup RankNames

\* the labels passed in variables_of_interest
VarNames == {CNAME, "rank", "score"}

Columns == [Rows -> Cells]

CnameColumn == [i \in Rows |-> <<2 * i>>]

\* an existing rank column: 1, 2, ..., n
RankColumn == [i \in Rows |-> <<2 * i>>]

\* a derived-rank column left behind by an earlier session: n, ..., 1
StaleColumn == [i \in Rows |-> <<2 * (NRows + 1 - i)>>]

\* the datasets a caller may hand in: any subset of the labels; the raw
\* indicator "score" holds any values, missing ones included
FullDataset(score) ==
    [c \in AllNames |->
        IF c = "score" THEN score
        ELSE IF c = CNAME THEN CnameColumn
        ELSE IF c = "rank" THEN RankColumn
        ELSE StaleColumn]

Datasets ==
    {[c \in cols |-> FullDataset(score)[c]] :
        score \in Columns, cols \in SUBSET AllNames}

Min(a, b) == IF a < b THEN a ELSE b

\* the tuple <<f(1), ..., f(n)>>
RECURSIVE Tabulate(_, _)
Tabulate(f(_), n) == IF n = 0 THEN <<>> ELSE Append(Tabulate(f, n - 1), f(n))

\* ---------------------------------------------------------------- pandas
\* variant: ties share their first position (method='min')
RankCellMin(col, i) ==
    IF IsNA(col[i]) THEN Missing
    ELSE LET gt == Cardinality({j \in Rows : ~IsNA(col[j]) /\ col[j][1] > col[i][1]})
         IN  <<2 * (gt + 1)>>

\* Series.rank(ascending=False): method='average', na_option='keep'.
\* A missing value keeps a missing rank; a present value v gets the mean of
\* the positions gt+1 .. gt+eq that the eq values equal to v occupy after
\* the gt larger ones, i.e. gt + (eq+1)/2, held doubled.
RankCell(col, i) ==
    IF IsNA(col[i]) THEN Missing
    ELSE LET gt == Cardinality({j \in Rows : ~IsNA(col[j]) /\ col[j][1] > col[i][1]})
             eq == Cardinality({j \in Rows : ~IsNA(col[j]) /\ col[j][1] = col[i][1]})
         IN  <<2 * gt + eq + 1>>

rank(col) == Tabulate(LAMBDA i : RankCell(col, i), NRows)

\* elementwise Series subtraction: missing if either operand is missing
Sub(x, y) == IF IsNA(x) \/ IsNA(y) THEN Missing ELSE <<x[1] - y[1]>>

\* df[label] = column : adds the label or overwrites it, in place
SetItem(d, label, col) ==
    [c \in DOMAIN d \cup {label} |-> IF c = label THEN col ELSE d[c]]

\* DataFrame.sort_values(by, ascending=False): kind='quicksort',
\* na_position='last'.  Missing keys go last in their original order.
\* quicksort is not a stable sort: the order of equal keys is whatever the
\* numpy build produces, held in tie (a priority per row; the identity is
\* the stable outcome).
Before(key, tie, i, j) ==
    IF IsNA(key[i]) THEN IsNA(key[j]) /\ i < j
    ELSE IF IsNA(key[j]) THEN TRUE
    ELSE \/ key[i][1] > key[j][1]
         \/ key[i][1] = key[j][1] /\ tie[i] < tie[j]

sort_values(key, tie) ==
    Tabulate(LAMBDA p : CHOOSE i \in Rows :
                 Cardinality({j \in Rows : Before(key, tie, j, i)}) = p - 1,
             NRows)

head(s, n) == SubSeq(s, 1, Min(n, Len(s)))

\* ---------------------------------------------------------------- results
Raised(kind) == [kind |-> kind, rows |-> <<>>]

Returned(rows) == [kind |-> "ok", rows |-> rows]

\* ------------------------------------------------- extreme_rank_countries
\* line 72: the only validation
HasRankCol2(d, c2) == c2 \in DOMAIN d

\* line 74: the derived rank is written into the caller's dataset
WriteCalc(d, c2) == SetItem(d, CALC, rank(d[c2]))

\* line 75: df[['cname', rank_col1, 'rank_col2_calc']] raises KeyError
\* unless the dataset carries every label of the list
CanProject(d, c1) == {CNAME, c1, CALC} \subseteq DOMAIN d

\* line 75: the projection, copied; label -> column.  When rank_col1 is
\* 'rank_col2_calc' the label is selected twice.
Project(d, c1) == [c \in {CNAME, c1, CALC} |-> d[c]]

\* line 76: with the label selected twice temp[rank_col1] is a two-column
\* frame, and assigning a two-column frame to the single label
\* 'rank_difference' raises ValueError
DuplicateLabel(c1) == c1 = CALC

\* line 76
rank_difference(temp, c1) ==
    Tabulate(LAMBDA i : Sub(temp[c1][i], temp[CALC][i]), NRows)

\* lines 76-77: the rows of temp with rank_difference, sorted, cut
Finish(temp, c1, n, tie) ==
    IF DuplicateLabel(c1) THEN Raised("ValueError")
    ELSE LET diff  == rank_difference(temp, c1)
             order == sort_values(diff, tie)
             row(i) == [idx |-> i, cname |-> temp[CNAME][i], col1 |-> temp[c1][i],
                        calc |-> temp[CALC][i], diff |-> diff[i]]
         IN  Returned(head(Tabulate(LAMBDA p : row(order[p]), NRows), n))

\* the whole call: the dataset it leaves behind and its outcome
extreme_rank_countries(d, c1, c2, n, tie) ==
    IF ~HasRankCol2(d, c2) THEN [df |-> d, out |-> Raised("ValueError")]
    ELSE LET d2 == WriteCalc(d, c2)
         IN  IF ~CanProject(d2, c1) THEN [df |-> d2, out |-> Raised("KeyError")]
             ELSE [df |-> d2, out |-> Finish(Project(d2, c1), c1, n, tie)]

\* ------------------------------------------------------ summary_statistics
Range(s) == {s[i] : i \in 1..Len(s)}

\* line 31
missing_vars(d, L) == Range(L) \ DOMAIN d

\* variant: one print per absent entry of the list
WarningsPerName(d, L) ==
    LET absent == SelectSeq(L, LAMBDA v : v \notin DOMAIN d)
    IN  [k \in 1..Len(absent) |-> {absent[k]}]

\* lines 32-33: what the call prints, one entry per print
Warnings(d, L) ==
    IF missing_vars(d, L) # {} THEN <<missing_vars(d, L)>> ELSE <<>>

\* line 34
available_vars(d, L) == SelectSeq(L, LAMBDA v : v \in DOMAIN d)

\* dtype: the country names are strings, every other column is float
IsNumeric(label) == label # CNAME

Present(col) == {i \in Rows : ~IsNA(col[i])}

\* the measures of describe() the model keeps: count, min and max of the
\* non-missing values (min and max are missing for an object column and
\* for a column with no value)
Describe1(label, col) ==
    LET vals == {col[i][1] : i \in Present(col)}
        ends == IsNumeric(label) /\ vals # {}
    IN  [name  |-> label,
         dtype |-> IF IsNumeric(label) THEN "number" ELSE "object",
         count |-> Cardinality(Present(col)),
         min   |-> IF ends THEN <<CHOOSE v \in vals : \A w \in vals : v <= w>> ELSE Missing,
         max   |-> IF ends THEN <<CHOOSE v \in vals : \A w \in vals : v >= w>> ELSE Missing]

\* line 35: DataFrame.describe() refuses a frame without columns; it
\* describes the numeric columns when there is one and all the (object)
\* columns otherwise; .T makes each described column a row
describe(d, labels) ==
    IF labels = <<>> THEN Raised("ValueError")
    ELSE LET numeric == SelectSeq(labels, IsNumeric)
             shown   == IF numeric # <<>> THEN numeric ELSE labels
         IN  Returned([k \in 1..Len(shown) |-> Describe1(shown[k], d[shown[k]])])

summary_statistics(d, L) ==
    [warn |-> Warnings(d, L), out |-> describe(d, available_vars(d, L))]

\* ---------------------------------------------------------------- state
VARIABLES
    tieOrder,   \* how this build's quicksort orders equal keys
    heap,       \* the dataset instances, by identity
    last,       \* the latest call: arguments, dataset before, outcome
    again,      \* the outcome of repeating that call, or NoOut
    th          \* concurrent callers of extreme_rank_countries

vars == <<tieOrder, heap, last, again, th>>

NoOut == Raised("none")

NoCall == [op |-> "none", L |-> <<>>, c1 |-> "", c2 |-> "", n |-> 0,
           pre |-> <<>>, out |-> NoOut, warn |-> <<>>]

Stable == [i \in Rows |-> i]

TieOrders == {Stable, [i \in Rows |-> NRows + 1 - i]}

Init ==
    /\ tieOrder \in TieOrders
    /\ heap \in {<<d>> : d \in Datasets}
    /\ last = NoCall
    /\ again = NoOut
    /\ th = <<>>

VarLists == UNION {[1..k -> VarNames] : k \in 0..MaxVars}

Summary(L) ==
    \E r \in {summary_statistics(heap[1], L)} :
        /\ last' = [op |-> "summary", L |-> L, c1 |-> "", c2 |-> "", n |-> 0,
                    pre |-> heap[1], out |-> r.out, warn |-> r.warn]
        /\ again' = NoOut
        /\ UNCHANGED <<tieOrder, heap, th>>

Extreme(c1, c2, n) ==
    \E r \in {extreme_rank_countries(heap[1], c1, c2, n, tieOrder)} :
        /\ heap' = <<r.df>>
        /\ last' = [op |-> "extreme", L |-> <<>>, c1 |-> c1, c2 |-> c2, n |-> n,
                    pre |-> heap[1], out |-> r.out, warn |-> <<>>]
        /\ again' = NoOut
        /\ UNCHANGED <<tieOrder, th>>

\* the caller repeats its latest call: same dataset object, same arguments
Repeat ==
    /\ last.op # "none"
    /\ again = NoOut
    /\ IF last.op = "summary"
       THEN /\ again' = summary_statistics(heap[1], last.L).out
            /\ heap' = heap
       ELSE \E r \in {extreme_rank_countries(heap[1], last.c1, last.c2, last.n,
                                                tieOrder)} :
                /\ again' = r.out
                /\ heap' = <<r.df>>
    /\ UNCHANGED <<tieOrder, last, th>>

Next ==
    \/ \E L \in VarLists : Summary(L)
    \/ \E c1 \in RankNames, c2 \in RankNames, n \in 1..MaxTopN : Extreme(c1, c2, n)
    \/ Repeat

Spec == Init /\ [][Next]_vars

\* summary_statistics alone (it never sorts)
InitSummary == Init /\ tieOrder = Stable

NextSummary == \E L \in VarLists : Summary(L)

SpecSummary == InitSummary /\ [][NextSummary]_vars

\* extreme_rank_countries alone, on datasets that meet its input contract:
\* cname, an existing rank and a raw indicator, with or without a
\* rank_col2_calc column of their own
InitRank == Init /\ {CNAME, "rank", "score"} \subseteq DOMAIN heap[1]

NextRank == \E c1 \in RankNames, c2 \in RankNames, n \in 1..MaxTopN : Extreme(c1, c2, n)

SpecRank == InitRank /\ [][NextRank]_vars

\* ------------------------------------------------------------ concurrency
\* Two callers run extreme_rank_countries at the same time, each on one of
\* two dataset instances loaded from the same data; a caller's steps are
\* the statements of lines 72-77.
Threads == {1, 2}

Instances == {1, 2}

ConcNames == {"rank", "score"}

ConcDatasets == {d \in Datasets : DOMAIN d = {CNAME, "rank", "score"}}

Idle == [pc |-> "idle", inst |-> 1, c1 |-> "", c2 |-> "", n |-> 0,
         pre |-> <<>>, temp |-> <<>>, out |-> NoOut]

InitConc ==
    /\ tieOrder = Stable
    /\ heap \in {<<d, d>> : d \in ConcDatasets}
    /\ last = NoCall
    /\ again = NoOut
    /\ th = [t \in Threads |-> Idle]

\* variant: every caller's df names the first instance
TargetShared(t) == 1

\* the dataset object a caller's df names
Target(t) == th[t].inst

Begin(t, inst, c1, c2) ==
    /\ th[t].pc = "idle"
    /\ th' = [th EXCEPT ![t] = [pc |-> "l72", inst |-> inst, c1 |-> c1, c2 |-> c2,
                               n |-> NRows, pre |-> heap[inst], temp |-> <<>>,
                               out |-> NoOut]]
    /\ UNCHANGED <<tieOrder, heap, last, again>>

\* lines 72-73
CheckCol(t) ==
    /\ th[t].pc = "l72"
    /\ th' = IF HasRankCol2(heap[th[t].inst], th[t].c2)
             THEN [th EXCEPT ![t].pc = "l74"]
             ELSE [th EXCEPT ![t].pc = "done", ![t].out = Raised("ValueError")]
    /\ UNCHANGED <<tieOrder, heap, last, again>>

\* line 74
WriteRank(t) ==
    /\ th[t].pc = "l74"
    /\ heap' = [heap EXCEPT ![Target(t)] =
                    SetItem(@, CALC, rank(heap[th[t].inst][th[t].c2]))]
    /\ th' = [th EXCEPT ![t].pc = "l75"]
    /\ UNCHANGED <<tieOrder, last, again>>

\* line 75
ReadProjection(t) ==
    /\ th[t].pc = "l75"
    /\ th' = IF CanProject(heap[th[t].inst], th[t].c1)
             THEN [th EXCEPT ![t].pc = "l76",
                             ![t].temp = Project(heap[th[t].inst], th[t].c1)]
             ELSE [th EXCEPT ![t].pc = "done", ![t].out = Raised("KeyError")]
    /\ UNCHANGED <<tieOrder, heap, last, again>>

\* lines 76-77
Return(t) ==
    /\ th[t].pc = "l76"
    /\ th' = [th EXCEPT ![t].pc = "done",
                        ![t].out = Finish(th[t].temp, th[t].c1, th[t].n, tieOrder)]
    /\ UNCHANGED <<tieOrder, heap, last, again>>

NextConc ==
    \/ \E t \in Threads, inst \in Instances, c1 \in ConcNames, c2 \in ConcNames :
            Begin(t, inst, c1, c2)
    \/ \E t \in Threads : CheckCol(t)
    \/ \E t \in Threads : WriteRank(t)
    \/ \E t \in Threads : ReadProjection(t)
    \/ \E t \in Threads : Return(t)

SpecConc == InitConc /\ [][NextConc]_vars

\* ------------------------------------------------------------ properties
IsExtreme == last.op = "extreme"

IsSummary == last.op = "summary"

\* x >= y on cells, a missing value counting as the lowest
Geq(x, y) == IsNA(y) \/ (~IsNA(x) /\ x[1] >= y[1])

RECURSIVE SumCells(_, _)
SumCells(col, n) ==
    IF n = 0 THEN 0
    ELSE SumCells(col, n - 1) + (IF IsNA(col[n]) THEN 0 ELSE col[n][1])

\* the rows of the dataset a result does not return
NotReturned(rows) == Rows \ {rows[k].idx : k \in 1..Len(rows)}

\* C1: extreme_rank_countries raises the InvalidColumn error (ValueError)
\* if and only if rank_col2 is not a column of the dataset it was given.
InvalidColumnIffRankCol2Absent ==
    IsExtreme =>
        (last.out.kind = "ValueError" <=> ~HasRankCol2(last.pre, last.c2))

\* C2: after a call of extreme_rank_countries, successful or failing, the
\* caller's dataset has the columns and the values it had before the call.
CallerDatasetUnchanged == IsExtreme => heap[1] = last.pre

\* C3: for a dataset with cname, rank_col1 and rank_col2 and a positive
\* top_n the call returns min(top_n, len(D)) rows, each with
\* rank_difference = rank_col1 - derived rank, in non-increasing order of
\* rank_difference, and no row left out has a larger rank_difference.
TopRowsByRankDifference ==
    IsExtreme /\ {CNAME, last.c1, last.c2} \subseteq DOMAIN last.pre =>
        LET rows    == last.out.rows
            derived == rank(last.pre[last.c2])
        IN  /\ last.out.kind = "ok"
            /\ Len(rows) = Min(last.n, NRows)
            /\ \A k \in 1..Len(rows) :
                /\ rows[k].col1 = last.pre[last.c1][rows[k].idx]
                /\ rows[k].calc = derived[rows[k].idx]
                /\ rows[k].diff = Sub(rows[k].col1, rows[k].calc)
            /\ \A k \in 1..(Len(rows) - 1) : Geq(rows[k].diff, rows[k + 1].diff)
            /\ \A k \in 1..Len(rows) : \A i \in NotReturned(rows) :
                Geq(rows[k].diff, Sub(last.pre[last.c1][i], derived[i]))

\* C4: summary_statistics(D, L) returns one row for exactly the names of L
\* that are columns of D, in the order of L.
SummaryRowsExactlyPresentNames ==
    IsSummary =>
        /\ last.out.kind = "ok"
        /\ Len(last.out.rows) = Len(available_vars(last.pre, last.L))
        /\ \A k \in 1..Len(last.out.rows) :
            last.out.rows[k].name = available_vars(last.pre, last.L)[k]

\* C5: when no name of L is a column of D (L empty included) the call does
\* not raise and returns a table with zero rows.
SummaryNothingPresentReturnsEmpty ==
    IsSummary /\ Range(last.L) \cap DOMAIN last.pre = {} =>
        last.out = Returned(<<>>)

\* the positions the value of row i occupies in the descending sort of col
TiedPositions(col, i) ==
    LET desc == sort_values(col, Stable)
    IN  {p \in Rows : col[desc[p]] = col[i]}

PositionEnds(col, i) ==
    LET ps == TiedPositions(col, i)
    IN  (CHOOSE p \in ps : \A q \in ps : p <= q) +
        (CHOOSE p \in ps : \A q \in ps : p >= q)

\* the ranks r rank the rows in S by col: larger value, lower rank; equal
\* values, the same rank, the mean of their positions in the descending
\* sort (twice the mean is the first position plus the last)
FractionalOn(S, col, r) ==
    /\ \A i \in S : ~IsNA(r[i])
    /\ \A i, j \in S :
        /\ col[i][1] > col[j][1] => r[i][1] < r[j][1]
        /\ col[i][1] = col[j][1] => r[i] = r[j]
    /\ \A i \in S : r[i][1] = PositionEnds(col, i)

\* C6 (as stated): the derived rank is a descending fractional ranking of
\* all n rows, and the n ranks sum to n(n+1)/2.
DerivedRankOverAllRows ==
    IsExtreme /\ HasRankCol2(last.pre, last.c2) =>
        LET col == last.pre[last.c2]
            r   == heap[1][CALC]
        IN  /\ Present(col) = Rows
            /\ FractionalOn(Rows, col, r)
            /\ SumCells(r, NRows) = NRows * (NRows + 1)

\* C6 (amended): the derived rank is a descending fractional ranking of the
\* k rows whose rank_col2 value is not missing: the largest value gets the
\* lowest rank, equal values get the mean of the positions they occupy,
\* the k ranks sum to k(k+1)/2; a row with a missing value gets no rank.
DerivedRankOverPresentRows ==
    IsExtreme /\ HasRankCol2(last.pre, last.c2) =>
        LET col == last.pre[last.c2]
            r   == heap[1][CALC]
            k   == Cardinality(Present(col))
        IN  /\ \A i \in Rows \ Present(col) : IsNA(r[i])
            /\ FractionalOn(Present(col), col, r)
            /\ SumCells(r, NRows) = k * (k + 1)

\* a call has ranked a column in which two rows hold the same value
DerivedRankTieReached ==
    /\ IsExtreme
    /\ HasRankCol2(last.pre, last.c2)
    /\ \E i, j \in Present(last.pre[last.c2]) :
        /\ i # j
        /\ last.pre[last.c2][i] = last.pre[last.c2][j]
        /\ heap[1][CALC][i] = heap[1][CALC][j]

RepeatedCallSameOutput == again # NoOut => again = last.out

\* C9: summary_statistics prints the missing-columns warning once, listing
\* every absent name, when a name of L is absent, prints nothing when none
\* is, and a call that warned still returns its table.
WarningOncePerCall ==
    IsSummary =>
        LET absent == {last.L[k] : k \in {k \in 1..Len(last.L) :
                                            last.L[k] \notin DOMAIN last.pre}}
        IN  /\ Len(last.warn) = IF absent = {} THEN 0 ELSE 1
            /\ \A k \in 1..Len(last.warn) : last.warn[k] = absent
            /\ last.warn # <<>> /\ Range(last.L) \cap DOMAIN last.pre # {} =>
                   last.out.kind = "ok"

\* a call with one present and one absent name warned once and returned
WarningOnceReached ==
    /\ IsSummary
    /\ Len(last.L) = 2
    /\ Cardinality(Range(last.L) \ DOMAIN last.pre) = 1
    /\ Len(last.warn) = 1
    /\ last.out.kind = "ok"
    /\ Len(last.out.rows) = 1

\* what caller t returns when nothing runs beside it
Alone(t) ==
    extreme_rank_countries(th[t].pre, th[t].c1, th[t].c2, th[t].n, tieOrder).out

\* what caller t returns when its derived rank is overwritten by caller u's
RacedBy(t, u) ==
    Finish(Project(SetItem(th[t].pre, CALC, rank(th[t].pre[th[u].c2])), th[t].c1),
           th[t].c1, th[t].n, tieOrder)

\* C10: a concurrent call whose dataset instance no other call uses returns
\* what it returns alone; a call returns anything else only when another
\* call on the same instance, with another rank_col2, wrote its derived
\* rank, and then it returns the ranks of that other rank_col2.
ConcurrentCallsIsolatedOrRaced ==
    \A t \in DOMAIN th : th[t].pc = "done" =>
        /\ (\A u \in DOMAIN th \ {t} : th[u].pc = "idle" \/ th[u].inst # th[t].inst)
                => th[t].out = Alone(t)
        /\ \/ th[t].out = Alone(t)
           \/ \E u \in DOMAIN th \ {t} :
                /\ th[u].pc \in {"l75", "l76", "done"}
                /\ th[u].inst = th[t].inst
                /\ th[u].c2 # th[t].c2
                /\ th[t].out = RacedBy(t, u)

\* two calls on one instance with different rank_col2, and one has returned
\* the derived ranks of the other's rank_col2 instead of its own
SameInstanceRaceReached ==
    \E t, u \in DOMAIN th :
        /\ t # u
        /\ th[t].pc = "done"
        /\ th[u].inst = th[t].inst
        /\ th[u].c2 # th[t].c2
        /\ th[t].out.kind = "ok"
        /\ th[t].out # Alone(t)
        /\ \A k \in 1..Len(th[t].out.rows) :
            th[t].out.rows[k].calc = rank(th[t].pre[th[u].c2])[th[t].out.rows[k].idx]
====
